---- MODULE Spec2Model ----
(***************************************************************************)
(* SIR epidemic simulation: the Person state machine (Person.cpp) and the  *)
(* Population day-advance engine (Population.cpp).                         *)
(*                                                                         *)
(* Members are indexed 1..size here (0..size-1 in the C++ vector).         *)
(* A float probability p is represented by the integer p * ProbScale; the  *)
(* draw of uniform_real_distribution<float>(0.0, 1.0) lies in [0,1) and is *)
(* represented by an integer in 0..ProbScale-1.                            *)
(***************************************************************************)
EXTENDS Integers, Sequences, FiniteSets

\* ---------------------------------------------------------------- bounds
MaxN == 3          \* largest population size explored
MaxDay == 2        \* simulateOneDay is not called once day reaches MaxDay
MaxDuration == 2   \* largest value passed to setInfectionDuration
MaxContacts == 1   \* largest value passed to setContactsPerDay
ProbScale == 2     \* probabilities are multiples of 1/ProbScale

DurationValues == 0..MaxDuration
ContactValues == 0..MaxContacts
ProbValues == {0, ProbScale}
ProbDraws == 0..(ProbScale - 1)
NoDraw == ProbScale + 1   \* probDis(gen) not evaluated (short-circuit &&)

VARIABLES
    size,                  \* Population::size
    day,                   \* Population::day
    countInfected,         \* Population::countInfected
    countSusceptible,      \* Population::countSusceptible
    countRecovered,        \* Population::countRecovered
    infectionProbability,  \* Population::infectionProbability
    contactsPerDay,        \* Population::contactsPerDay
    infectionDuration,     \* Population::infectionDuration
    population,            \* Population::population, a sequence of Person
    last,                  \* history: the last call and its outcome
    tracked,               \* history: the member whose infection is recorded (0: none)
    infectedOn,            \* history: day on which the tracked member became infected
    infectedFor,           \* history: duration it was infected with (0: never)
    config,                \* SIRSimulation::config
    pc,                    \* position of the driver in its constructor and runSimulation
    runDay,                \* the local variable day of runSimulation
    printed,               \* the last line written by outputDailyStats
    thrown                 \* the exception that left the driver ("none": none)

vars == <<size, day, countInfected, countSusceptible, countRecovered,
          infectionProbability, contactsPerDay, infectionDuration,
          population, last, tracked, infectedOn, infectedFor,
          config, pc, runDay, printed, thrown>>

simVars == <<config, pc, runDay, printed, thrown>>

\* ---------------------------------------------------------------- Person
Person == [current |-> "susceptible", infectionDays |-> 0]

isRecovered(p) == p.current = "recovered"
isInfected(p) == p.current = "sick"
isSusceptible(p) == p.current = "susceptible"
getRemainingInfectionDays(p) == p.infectionDays

\* updateState recovering only below zero
updateStateBelowZero(p) ==
    IF p.current = "sick"
    THEN LET n == p.infectionDays - 1
         IN IF n < 0
            THEN [current |-> "recovered", infectionDays |-> 0]
            ELSE [current |-> "sick", infectionDays |-> n]
    ELSE p

updateState(p) ==
    IF p.current = "sick"
    THEN LET n == p.infectionDays - 1
         IN IF n <= 0
            THEN [current |-> "recovered", infectionDays |-> 0]
            ELSE [current |-> "sick", infectionDays |-> n]
    ELSE p

\* infect sparing only the sick
infectUnlessSick(p, duration) ==
    IF duration <= 0
    THEN [person |-> p, raised |-> TRUE]
    ELSE IF p.current # "sick"
         THEN [person |-> [current |-> "sick", infectionDays |-> duration],
               raised |-> FALSE]
         ELSE [person |-> p, raised |-> FALSE]

\* infect without the state check
infectAnyone(p, duration) ==
    IF duration <= 0
    THEN [person |-> p, raised |-> TRUE]
    ELSE [person |-> [current |-> "sick", infectionDays |-> duration],
          raised |-> FALSE]

\* infect validating the duration only for a susceptible person
infectStateFirst(p, duration) ==
    IF p.current = "susceptible"
    THEN IF duration <= 0
         THEN [person |-> p, raised |-> TRUE]
         ELSE [person |-> [current |-> "sick", infectionDays |-> duration],
               raised |-> FALSE]
    ELSE [person |-> p, raised |-> FALSE]

\* infect returns the person and whether std::invalid_argument was thrown
infect(p, duration) ==
    IF duration <= 0
    THEN [person |-> p, raised |-> TRUE]
    ELSE IF p.current = "susceptible"
         THEN [person |-> [current |-> "sick", infectionDays |-> duration],
               raised |-> FALSE]
         ELSE [person |-> p, raised |-> FALSE]

\* ------------------------------------------------------------ Population
\* updateCounts without resetting the infected counter
updateCountsNoReset(pop) ==
    [countInfected |->
        countInfected + Cardinality({i \in DOMAIN pop : isInfected(pop[i])}),
     countSusceptible |->
        Cardinality({i \in DOMAIN pop : isSusceptible(pop[i])}),
     countRecovered |->
        Cardinality({i \in DOMAIN pop : isRecovered(pop[i])})]

updateCounts(pop) ==
    [countInfected |-> Cardinality({i \in DOMAIN pop : isInfected(pop[i])}),
     countSusceptible |->
        Cardinality({i \in DOMAIN pop :
                        ~isInfected(pop[i]) /\ isSusceptible(pop[i])}),
     countRecovered |->
        Cardinality({i \in DOMAIN pop :
                        /\ ~isInfected(pop[i]) /\ ~isSusceptible(pop[i])
                        /\ isRecovered(pop[i])})]

\* infectPerson with a duration of its own
infectPersonOneDay(p) == infect(p, 1)

infectPerson(p) == infect(p, infectionDuration)

\* loop condition of simulateTransmission, i counting from 0
contactLoopCond(i, n) == i < contactsPerDay /\ i < n - 1

contactIterations(n) ==
    Cardinality({i \in 0..(MaxContacts + MaxN) : contactLoopCond(i, n)})

\* the contact loop with the probability comparison reversed
RECURSIVE transmissionLoopReversed(_, _, _, _)
transmissionLoopReversed(i, pop, draws, newlyInfected) ==
    IF contactLoopCond(i, Len(pop))
    THEN LET contactIndex == draws[i + 1].contactIndex
             contactPerson == pop[contactIndex]
         IN transmissionLoopReversed(i + 1, pop, draws,
               IF /\ isSusceptible(contactPerson)
                  /\ draws[i + 1].probDraw >= infectionProbability
               THEN Append(newlyInfected, contactIndex)
               ELSE newlyInfected)
    ELSE newlyInfected

RECURSIVE transmissionLoop(_, _, _, _)
transmissionLoop(i, pop, draws, newlyInfected) ==
    IF contactLoopCond(i, Len(pop))
    THEN LET contactIndex == draws[i + 1].contactIndex
             contactPerson == pop[contactIndex]
         IN transmissionLoop(i + 1, pop, draws,
               IF /\ isSusceptible(contactPerson)
                  /\ draws[i + 1].probDraw <= infectionProbability
               THEN Append(newlyInfected, contactIndex)
               ELSE newlyInfected)
    ELSE newlyInfected

simulateTransmission(pop, draws, newlyInfected) ==
    transmissionLoop(0, pop, draws, newlyInfected)

\* the first loop with updateState ahead of the isInfected test
RECURSIVE personLoopUpdateFirst(_, _, _, _, _)
personLoopUpdateFirst(k, order, pop, draws, newlyInfected) ==
    IF k > Len(order)
    THEN [population |-> pop, newlyInfected |-> newlyInfected]
    ELSE LET m == order[k]
             updated == [pop EXCEPT ![m] = updateState(pop[m])]
             collected == IF isInfected(updated[m])
                          THEN simulateTransmission(updated, draws[m],
                                                    newlyInfected)
                          ELSE newlyInfected
         IN personLoopUpdateFirst(k + 1, order, updated, draws, collected)

\* first loop of simulateOneDay, visiting the members in the given order
RECURSIVE personLoop(_, _, _, _, _)
personLoop(k, order, pop, draws, newlyInfected) ==
    IF k > Len(order)
    THEN [population |-> pop, newlyInfected |-> newlyInfected]
    ELSE LET m == order[k]
             collected == IF isInfected(pop[m])
                          THEN simulateTransmission(pop, draws[m], newlyInfected)
                          ELSE newlyInfected
         IN personLoop(k + 1, order,
                       [pop EXCEPT ![m] = updateState(pop[m])],
                       draws, collected)

\* the second loop with updateState applied to the person just infected
RECURSIVE infectLoopThenUpdate(_, _, _)
infectLoopThenUpdate(j, newlyInfected, pop) ==
    IF j > Len(newlyInfected)
    THEN [population |-> pop, raised |-> FALSE]
    ELSE LET r == infectPerson(pop[newlyInfected[j]])
         IN IF r.raised
            THEN [population |-> pop, raised |-> TRUE]
            ELSE infectLoopThenUpdate(j + 1, newlyInfected,
                    [pop EXCEPT ![newlyInfected[j]] =
                        IF isSusceptible(pop[newlyInfected[j]])
                        THEN updateState(r.person) ELSE r.person])

\* second loop of simulateOneDay; the first throwing infect ends the call
RECURSIVE infectLoop(_, _, _)
infectLoop(j, newlyInfected, pop) ==
    IF j > Len(newlyInfected)
    THEN [population |-> pop, raised |-> FALSE]
    ELSE LET r == infectPerson(pop[newlyInfected[j]])
         IN IF r.raised
            THEN [population |-> pop, raised |-> TRUE]
            ELSE infectLoop(j + 1, newlyInfected,
                            [pop EXCEPT ![newlyInfected[j]] = r.person])

Range(s) == {s[i] : i \in DOMAIN s}

\* simulateOneDay with updateCounts ahead of the second loop
simulateOneDayCountsEarly(order, draws) ==
    LET loop == personLoop(1, order, population, draws, <<>>)
        counts == updateCounts(loop.population)
        done == infectLoop(1, loop.newlyInfected, loop.population)
    IN [population |-> done.population, raised |-> done.raised,
        day |-> IF done.raised THEN day ELSE day + 1,
        countInfected |-> counts.countInfected,
        countSusceptible |-> counts.countSusceptible,
        countRecovered |-> counts.countRecovered,
        newlyInfected |-> Range(loop.newlyInfected)]

\* the object after one simulateOneDay call, as a record of its fields
simulateOneDayIn(order, draws) ==
    LET loop == personLoop(1, order, population, draws, <<>>)
        done == infectLoop(1, loop.newlyInfected, loop.population)
        counts == updateCounts(done.population)
    IN IF done.raised
       THEN [population |-> done.population, raised |-> TRUE, day |-> day,
             countInfected |-> countInfected,
             countSusceptible |-> countSusceptible,
             countRecovered |-> countRecovered,
             newlyInfected |-> Range(loop.newlyInfected)]
       ELSE [population |-> done.population, raised |-> FALSE,
             day |-> day + 1,
             countInfected |-> counts.countInfected,
             countSusceptible |-> counts.countSusceptible,
             countRecovered |-> counts.countRecovered,
             newlyInfected |-> Range(loop.newlyInfected)]

\* the vector's own iteration order
VectorOrder == [k \in 1..size |-> k]

simulateOneDay(draws) == simulateOneDayIn(VectorOrder, draws)

\* the calls simulateOneDay makes, in the order it makes them
memberStepsUpdateFirst(m, pop) ==
    <<[call |-> "updateState", member |-> m]>>
        \o (IF isInfected(pop[m])
            THEN <<[call |-> "simulateTransmission", member |-> m]>>
            ELSE <<>>)

\* one iteration of the first loop: the transmissions of a sick member,
\* then that member's updateState
memberSteps(m, pop) ==
    (IF isInfected(pop[m])
     THEN <<[call |-> "simulateTransmission", member |-> m]>>
     ELSE <<>>)
        \o <<[call |-> "updateState", member |-> m]>>

RECURSIVE personLoopSteps(_, _, _, _)
personLoopSteps(k, order, pop, draws) ==
    IF k > Len(order)
    THEN <<>>
    ELSE memberSteps(order[k],
                     personLoop(1, SubSeq(order, 1, k - 1), pop, draws,
                                <<>>).population)
            \o personLoopSteps(k + 1, order, pop, draws)

\* the second loop: one infectPerson per entry, up to the first that throws
infectLoopSteps(newlyInfected, pop) ==
    LET n == IF /\ Len(newlyInfected) > 0
                /\ infectPerson(pop[newlyInfected[1]]).raised
             THEN 1
             ELSE Len(newlyInfected)
    IN [j \in 1..n |-> [call |-> "infectPerson", member |-> newlyInfected[j]]]

simulateOneDaySteps(draws) ==
    LET loop == personLoop(1, VectorOrder, population, draws, <<>>)
    IN personLoopSteps(1, VectorOrder, population, draws)
          \o infectLoopSteps(loop.newlyInfected, loop.population)

\* --------------------------------------------------- random-source inputs
\* one contact: the index drawn, and the probability draw when it is made
ContactDraws(pop) ==
    {[contactIndex |-> c, probDraw |-> d] :
        c \in DOMAIN pop, d \in ProbDraws \cup {NoDraw}}

ContactDrawOk(pop, cd) ==
    (cd.probDraw = NoDraw) <=> ~isSusceptible(pop[cd.contactIndex])

SeqsOfLen(S, n) == [1..n -> S]

\* the draws of one day: one sequence per member that transmits
DayDraws(pop) ==
    LET n == contactIterations(Len(pop))
        ok == {cd \in ContactDraws(pop) : ContactDrawOk(pop, cd)}
    IN [{m \in DOMAIN pop : isInfected(pop[m])} -> SeqsOfLen(ok, n)]

\* ----------------------------------------------------------------- state
NoCall(name) ==
    [op |-> name, raised |-> FALSE, index |-> 0, exposed |-> {}]

Population ==
    /\ size \in 1..MaxN
    /\ day = 0
    /\ countInfected = 0
    /\ countSusceptible = size
    /\ countRecovered = 0
    /\ infectionProbability = 0
    /\ contactsPerDay = 0
    /\ infectionDuration = 0
    /\ population = [i \in 1..size |-> Person]
    /\ last = NoCall("Population")
    /\ infectedOn = 0
    /\ infectedFor = 0

NoLine == [day |-> 0, S |-> 0, I |-> 0, R |-> 0, written |-> FALSE]

NoConfig ==
    [populationSize |-> 0, initialInfections |-> 0, simulationDays |-> 0,
     infectionProbability |-> 0, contactsPerDay |-> 0, infectionDuration |-> 0]

\* a Population used directly, without the SIRSimulation driver
NoDriver ==
    /\ config = NoConfig
    /\ pc = "standalone"
    /\ runDay = 0
    /\ printed = NoLine
    /\ thrown = "none"

Init == Population /\ tracked = 0 /\ NoDriver

InitHistory == Population /\ tracked \in 1..size /\ NoDriver

SetInfectionProbability ==
    /\ \E probability \in ProbValues : infectionProbability' = probability
    /\ last' = NoCall("set")
    /\ UNCHANGED <<size, day, countInfected, countSusceptible, countRecovered,
                   contactsPerDay, infectionDuration, population,
                   tracked, infectedOn, infectedFor, simVars>>

SetContactsPerDay ==
    /\ \E contacts \in ContactValues : contactsPerDay' = contacts
    /\ last' = NoCall("set")
    /\ UNCHANGED <<size, day, countInfected, countSusceptible, countRecovered,
                   infectionProbability, infectionDuration, population,
                   tracked, infectedOn, infectedFor, simVars>>

SetInfectionDuration ==
    /\ \E days \in DurationValues : infectionDuration' = days
    /\ last' = NoCall("set")
    /\ UNCHANGED <<size, day, countInfected, countSusceptible, countRecovered,
                   infectionProbability, contactsPerDay, population,
                   tracked, infectedOn, infectedFor, simVars>>

\* members that went from susceptible to sick between two populations
Became(pop, pop2) ==
    {i \in DOMAIN pop : isSusceptible(pop[i]) /\ isInfected(pop2[i])}

Record(pop, pop2, d) ==
    /\ tracked' = tracked
    /\ infectedOn' = IF tracked \in Became(pop, pop2) THEN d ELSE infectedOn
    /\ infectedFor' = IF tracked \in Became(pop, pop2)
                      THEN pop2[tracked].infectionDays ELSE infectedFor

InfectRandomPerson ==
    \E index \in 1..size :
        LET r == infectPerson(population[index])
            pop2 == [population EXCEPT ![index] = r.person]
        IN /\ population' = pop2
           /\ last' = [op |-> "infectRandomPerson", raised |-> r.raised,
                       index |-> index, exposed |-> {}]
           /\ Record(population, pop2, day)
           /\ UNCHANGED <<size, day, countInfected, countSusceptible,
                          countRecovered, infectionProbability,
                          contactsPerDay, infectionDuration, simVars>>

SimulateOneDayCall ==
    /\ \E draws \in DayDraws(population) :
         LET r == simulateOneDay(draws)
         IN /\ population' = r.population
            /\ day' = r.day
            /\ countInfected' = r.countInfected
            /\ countSusceptible' = r.countSusceptible
            /\ countRecovered' = r.countRecovered
            /\ last' = [op |-> "simulateOneDay", raised |-> r.raised,
                        index |-> 0, exposed |-> r.newlyInfected]
            /\ Record(population, r.population, r.day)
    /\ UNCHANGED <<size, infectionProbability, contactsPerDay,
                   infectionDuration, simVars>>

SimulateOneDay == day < MaxDay /\ SimulateOneDayCall

Next ==
    \/ SetInfectionProbability
    \/ SetContactsPerDay
    \/ SetInfectionDuration
    \/ InfectRandomPerson
    \/ SimulateOneDay

Spec == Init /\ [][Next]_vars

\* the same program with the infection of one member recorded
SpecHistory == InitHistory /\ [][Next]_vars

\* ------------------------------------------------- one epidemic, to its end
\* the parameters are set on the new population, it is seeded on day 0 with a
\* positive duration, and from then on only simulateOneDay is called
Fresh == day = 0 /\ \A i \in 1..size : isSusceptible(population[i])

EpidemicDays == MaxN * MaxDuration + 1

ConfigureProbability == Fresh /\ SetInfectionProbability

ConfigureContacts == Fresh /\ SetContactsPerDay

ConfigureDuration == Fresh /\ SetInfectionDuration

Seed == day = 0 /\ infectionDuration >= 1 /\ InfectRandomPerson

AdvanceDay == ~Fresh /\ day < EpidemicDays /\ SimulateOneDayCall

NextEpidemic ==
    \/ ConfigureProbability
    \/ ConfigureContacts
    \/ ConfigureDuration
    \/ Seed
    \/ AdvanceDay

SpecEpidemic == Init /\ [][NextEpidemic]_vars

\* ------------------------------------------- the standalone Simulation.cpp
\* Its Population has the same fields under other names: Pop is population,
\* probability is infectionProbability, contacts is contactsPerDay,
\* infectionDays is infectionDuration, countRecoverred is countRecovered.

\* Person::currentState: recovery when the countdown is exactly 0
personCurrentState(p) ==
    IF p.current = "sick"
    THEN [current |-> IF p.infectionDays - 1 = 0 THEN "recovered" ELSE "sick",
          infectionDays |-> p.infectionDays - 1]
    ELSE p

\* Person::infect: no check of the duration
personInfect(p, duration) ==
    IF p.current = "susceptible"
    THEN [current |-> "sick", infectionDays |-> duration]
    ELSE p

thePersonToinfect(p) == personInfect(p, infectionDuration)

\* one iteration of contract: gen()/gen.max() lies in [0, 1], and an index
\* is drawn only when it passes the comparison (index 0: no draw)
ContractDraws ==
    {cd \in [probDraw : 0..ProbScale, index : 0..size] :
        (cd.probDraw <= infectionProbability) <=> cd.index # 0}

contractIterations ==
    IF contactsPerDay < size - 1 THEN contactsPerDay ELSE size - 1

RECURSIVE contract(_, _, _)
contract(i, draws, newly_infected) ==
    IF i < contractIterations
    THEN contract(i + 1, draws,
                  IF draws[i + 1].probDraw <= infectionProbability
                  THEN Append(newly_infected, draws[i + 1].index)
                  ELSE newly_infected)
    ELSE newly_infected

StandaloneDraws ==
    [{m \in 1..size : population[m].current = "sick"}
        -> SeqsOfLen(ContractDraws, IF contractIterations > 0
                                    THEN contractIterations ELSE 0)]

\* the loop of Population::currentState over Pop, i counting from 1
RECURSIVE currentStateLoop(_, _, _, _)
currentStateLoop(i, pop, draws, acc) ==
    IF i > Len(pop)
    THEN [Pop |-> pop, acc |-> acc]
    ELSE LET status == pop[i].current
             acc2 ==
                [theinfectcount |->
                    acc.theinfectcount + (IF status = "sick" THEN 1 ELSE 0),
                 theSusceptibleCount |->
                    acc.theSusceptibleCount
                       + (IF status = "susceptible" THEN 1 ELSE 0),
                 theRecoveredCount |->
                    acc.theRecoveredCount
                       + (IF status = "recovered" THEN 1 ELSE 0),
                 newly_infected |->
                    IF status = "sick"
                    THEN contract(0, draws[i], acc.newly_infected)
                    ELSE acc.newly_infected]
         IN currentStateLoop(i + 1,
                             [pop EXCEPT ![i] = personCurrentState(pop[i])],
                             draws, acc2)

RECURSIVE infectNewly(_, _, _)
infectNewly(j, newly_infected, pop) ==
    IF j > Len(newly_infected)
    THEN pop
    ELSE infectNewly(j + 1, newly_infected,
                     [pop EXCEPT ![newly_infected[j]] =
                         thePersonToinfect(pop[newly_infected[j]])])

ContractProbability ==
    /\ \E probability \in ProbValues : infectionProbability' = probability
    /\ last' = NoCall("contractProbability")
    /\ UNCHANGED <<size, day, countInfected, countSusceptible, countRecovered,
                   contactsPerDay, infectionDuration, population,
                   tracked, infectedOn, infectedFor, simVars>>

SetContactCount ==
    /\ \E contacts \in ContactValues : contactsPerDay' = contacts
    /\ last' = NoCall("setContactCount")
    /\ UNCHANGED <<size, day, countInfected, countSusceptible, countRecovered,
                   infectionProbability, infectionDuration, population,
                   tracked, infectedOn, infectedFor, simVars>>

SetSickDays ==
    /\ \E days \in DurationValues : infectionDuration' = days
    /\ last' = NoCall("setSickDays")
    /\ UNCHANGED <<size, day, countInfected, countSusceptible, countRecovered,
                   infectionProbability, contactsPerDay, population,
                   tracked, infectedOn, infectedFor, simVars>>

InfectRandomPersons ==
    /\ countInfected' = 1
    /\ \E index \in 1..size :
         /\ population' = [population EXCEPT
                              ![index] = thePersonToinfect(population[index])]
         /\ last' = [NoCall("infectRandomPersons") EXCEPT !.index = index]
    /\ UNCHANGED <<size, day, countSusceptible, countRecovered,
                   infectionProbability, contactsPerDay, infectionDuration,
                   tracked, infectedOn, infectedFor, simVars>>

CurrentState ==
    /\ day < MaxDay
    /\ \E draws \in StandaloneDraws :
         \E r \in {currentStateLoop(1, population, draws,
                      [theinfectcount |-> 0, theSusceptibleCount |-> 0,
                       theRecoveredCount |-> 0, newly_infected |-> <<>>])} :
            /\ day' = day + 1
            /\ countInfected' = r.acc.theinfectcount
            /\ countSusceptible' = r.acc.theSusceptibleCount
            /\ countRecovered' = r.acc.theRecoveredCount
            /\ population' = infectNewly(1, r.acc.newly_infected, r.Pop)
            /\ last' = [NoCall("currentState") EXCEPT
                           !.exposed = Range(r.acc.newly_infected)]
    /\ UNCHANGED <<size, infectionProbability, contactsPerDay,
                   infectionDuration, tracked, infectedOn, infectedFor, simVars>>

NextStandalone ==
    \/ ContractProbability
    \/ SetContactCount
    \/ SetSickDays
    \/ InfectRandomPersons
    \/ CurrentState

InitStandalone == Population /\ tracked = 0 /\ NoDriver

SpecStandalone == InitStandalone /\ [][NextStandalone]_vars

\* ---------------------------------------------------------- SIRSimulation
\* configurations handed to the constructor, the invalid ones included
ConfigValues ==
    [populationSize : (-1)..MaxN,
     initialInfections : 0..MaxN,
     simulationDays : 0..MaxDay,
     infectionProbability : {-1, ProbScale + 1} \cup ProbValues,
     contactsPerDay : (-1)..MaxContacts,
     infectionDuration : DurationValues]

isValid(c) ==
    /\ c.populationSize > 0
    /\ c.initialInfections > 0
    /\ c.initialInfections <= c.populationSize
    /\ c.simulationDays > 0
    /\ c.infectionProbability >= 0
    /\ c.infectionProbability <= ProbScale
    /\ c.contactsPerDay >= 0
    /\ c.infectionDuration > 0

\* a configuration has been made; the driver is not constructed yet
InitSim ==
    /\ config \in ConfigValues
    /\ pc = "config"
    /\ runDay = 0
    /\ printed = NoLine
    /\ thrown = "none"
    /\ size = 0
    /\ day = 0
    /\ countInfected = 0
    /\ countSusceptible = 0
    /\ countRecovered = 0
    /\ infectionProbability = 0
    /\ contactsPerDay = 0
    /\ infectionDuration = 0
    /\ population = <<>>
    /\ last = NoCall("none")
    /\ tracked = 0
    /\ infectedOn = 0
    /\ infectedFor = 0

\* the constructor: the member population(simConfig.populationSize) is built
\* first (reserve of a negative size raises std::length_error), then the
\* configuration is validated, then the three setters are called
SIRSimulation ==
    /\ pc = "config"
    /\ IF config.populationSize < 0
       THEN /\ pc' = "failed"
            /\ thrown' = "length_error"
            /\ UNCHANGED <<size, countSusceptible, infectionProbability,
                           contactsPerDay, infectionDuration, population, last>>
       ELSE IF ~isValid(config)
       THEN /\ pc' = "failed"
            /\ thrown' = "invalid_argument"
            /\ UNCHANGED <<size, countSusceptible, infectionProbability,
                           contactsPerDay, infectionDuration, population, last>>
       ELSE /\ pc' = "constructed"
            /\ thrown' = thrown
            /\ size' = config.populationSize
            /\ countSusceptible' = config.populationSize
            /\ infectionProbability' = config.infectionProbability
            /\ contactsPerDay' = config.contactsPerDay
            /\ infectionDuration' = config.infectionDuration
            /\ population' = [i \in 1..config.populationSize |-> Person]
            /\ last' = NoCall("SIRSimulation")
    /\ UNCHANGED <<day, countInfected, countRecovered, tracked, infectedOn,
                   infectedFor, config, runDay, printed>>

RECURSIVE initializeSimulation(_, _, _)
initializeSimulation(i, indexes, pop) ==
    IF i > Len(indexes)
    THEN [population |-> pop, raised |-> FALSE]
    ELSE LET r == infectPerson(pop[indexes[i]])
         IN IF r.raised
            THEN [population |-> pop, raised |-> TRUE]
            ELSE initializeSimulation(i + 1, indexes,
                                      [pop EXCEPT ![indexes[i]] = r.person])

outputDailyStats(d, susceptible, infected, recovered) ==
    [day |-> d, S |-> susceptible, I |-> infected, R |-> recovered,
     written |-> TRUE]

runLoopCondStrict(d) == d < config.simulationDays

runLoopCond(d) == d <= config.simulationDays

\* runSimulation up to the loop: initializeSimulation() and outputDailyStats(0)
RunSimulationStart ==
    /\ pc = "constructed"
    /\ \E indexes \in SeqsOfLen(1..size, config.initialInfections) :
         LET r == initializeSimulation(1, indexes, population)
         IN /\ population' = r.population
            /\ last' = [op |-> "infectRandomPerson", raised |-> r.raised,
                        index |-> indexes[Len(indexes)], exposed |-> {}]
            /\ IF r.raised
               THEN /\ pc' = "failed"
                    /\ thrown' = "invalid_argument"
                    /\ UNCHANGED <<runDay, printed>>
               ELSE /\ pc' = "loop"
                    /\ runDay' = 1
                    /\ printed' = outputDailyStats(0, countSusceptible,
                                                   countInfected, countRecovered)
                    /\ thrown' = thrown
    /\ UNCHANGED <<size, day, countInfected, countSusceptible, countRecovered,
                   infectionProbability, contactsPerDay, infectionDuration,
                   tracked, infectedOn, infectedFor, config>>

\* one iteration of the loop of runSimulation
RunSimulationDay ==
    /\ pc = "loop"
    /\ runLoopCond(runDay)
    /\ \E draws \in DayDraws(population) :
         \E r \in {simulateOneDay(draws)} :
            /\ population' = r.population
            /\ day' = r.day
            /\ countInfected' = r.countInfected
            /\ countSusceptible' = r.countSusceptible
            /\ countRecovered' = r.countRecovered
            /\ last' = [op |-> "simulateOneDay", raised |-> r.raised,
                        index |-> 0, exposed |-> r.newlyInfected]
            /\ IF r.raised
               THEN /\ pc' = "failed"
                    /\ thrown' = "invalid_argument"
                    /\ UNCHANGED <<runDay, printed>>
               ELSE /\ printed' = outputDailyStats(runDay, r.countSusceptible,
                                                   r.countInfected,
                                                   r.countRecovered)
                    /\ thrown' = thrown
                    /\ IF r.countInfected = 0
                       THEN pc' = "done" /\ runDay' = runDay
                       ELSE pc' = "loop" /\ runDay' = runDay + 1
    /\ UNCHANGED <<size, infectionProbability, contactsPerDay,
                   infectionDuration, tracked, infectedOn, infectedFor, config>>

\* the loop condition fails: runSimulation goes on to its final summary
RunSimulationExit ==
    /\ pc = "loop"
    /\ ~runLoopCond(runDay)
    /\ pc' = "done"
    /\ UNCHANGED <<size, day, countInfected, countSusceptible, countRecovered,
                   infectionProbability, contactsPerDay, infectionDuration,
                   population, last, tracked, infectedOn, infectedFor,
                   config, runDay, printed, thrown>>

NextSim ==
    \/ SIRSimulation
    \/ RunSimulationStart
    \/ RunSimulationDay
    \/ RunSimulationExit

SpecSim == InitSim /\ [][NextSim]_vars

\* the driver made from a valid configuration; runSimulation is one call
\* running to its end: a step that can be taken is taken
InitSimValid == InitSim /\ isValid(config)

SpecSimFair == InitSimValid /\ [][NextSim]_vars /\ WF_vars(NextSim)

\* ------------------------------------------------------------------ types
TypeOK ==
    /\ size \in 1..MaxN
    /\ day \in 0..MaxDay
    /\ population \in [1..size -> [current : {"susceptible", "sick", "recovered"},
                                   infectionDays : 0..MaxDuration]]
    /\ countInfected \in 0..size
    /\ countSusceptible \in 0..size
    /\ countRecovered \in 0..size

\* ----------------------------------------------------------------- claims
NumberOf(test(_)) == Cardinality({i \in 1..size : test(population[i])})

\* C1: the three counts read through the getters always add up to the
\* population size.
PartitionSum == countSusceptible + countInfected + countRecovered = size

PartitionSumWitness ==
    /\ last.op = "simulateOneDay" /\ ~last.raised
    /\ countSusceptible > 0 /\ countInfected > 0 /\ countRecovered > 0

\* C2: whenever a caller can read them, the three counts equal the numbers
\* of susceptible, sick and recovered members.
CountsMatchMembers ==
    /\ countSusceptible = NumberOf(isSusceptible)
    /\ countInfected = NumberOf(isInfected)
    /\ countRecovered = NumberOf(isRecovered)

\* C3: a person is sick exactly when its remaining days are positive; the
\* remaining days are 0 when susceptible or recovered and never negative.
PersonConsistent ==
    \A i \in 1..size :
        LET p == population[i]
        IN /\ isInfected(p) <=> getRemainingInfectionDays(p) > 0
           /\ (isSusceptible(p) \/ isRecovered(p))
                 => getRemainingInfectionDays(p) = 0
           /\ getRemainingInfectionDays(p) >= 0

PersonConsistentWitness ==
    /\ last.op = "infectRandomPerson" /\ last.raised
    /\ \E i \in 1..size : isRecovered(population[i])
    /\ \E i \in 1..size : isInfected(population[i])

\* C4: once a member is recovered no call changes its state or its
\* remaining days.
RecoveredIsTerminal ==
    [][\A i \in 1..size :
          isRecovered(population[i]) => population'[i] = population[i]]_vars

RecoveredIsTerminalWitness ==
    /\ last.op = "infectRandomPerson" /\ ~last.raised
    /\ isRecovered(population[last.index])

\* C5: infect(d) with d > 0 on a sick or recovered member changes nothing
\* and raises no error.
InfectNonSusceptibleIsNoOp ==
    [][(/\ last'.op = "infectRandomPerson"
        /\ infectionDuration > 0
        /\ ~isSusceptible(population[last'.index]))
          => (population' = population /\ ~last'.raised)]_vars

InfectNonSusceptibleIsNoOpWitness ==
    /\ last.op = "infectRandomPerson" /\ ~last.raised
    /\ isInfected(population[last.index])
    /\ population[last.index].infectionDays < infectionDuration

\* C6: infect(d) raises exactly when d <= 0, whatever the state of the
\* person, and then leaves the person as it was.
InfectRaisesIffNotPositive ==
    [][/\ last'.op = "infectRandomPerson" =>
            /\ last'.raised <=> infectionDuration <= 0
            /\ last'.raised => population' = population
       /\ last'.op = "simulateOneDay" =>
            /\ last'.raised <=> (infectionDuration <= 0 /\ last'.exposed # {})
            /\ last'.raised =>
                 \A i \in last'.exposed : population'[i] = population[i]]_vars

InfectRaisesIffNotPositiveWitness ==
    /\ last.op = "infectRandomPerson" /\ last.raised
    /\ isRecovered(population[last.index])

\* the fields of the object a caller can tell two outcomes apart by
Observable(r) ==
    [population |-> r.population, raised |-> r.raised, day |-> r.day,
     countInfected |-> r.countInfected,
     countSusceptible |-> r.countSusceptible,
     countRecovered |-> r.countRecovered]

\* the day advance in three phases: collect every transmission from the
\* start-of-day state, advance every member once, infect the newly exposed
threePhase(draws) ==
    LET transmitting == {m \in 1..size : population[m].current = "sick"}
        pending ==
            UNION {{draws[m][i].contactIndex : i \in
                      {j \in DOMAIN draws[m] :
                         /\ population[draws[m][j].contactIndex].current
                               = "susceptible"
                         /\ draws[m][j].probDraw <= infectionProbability}} :
                   m \in transmitting}
        advanced == [i \in 1..size |-> updateState(population[i])]
        raised == pending # {} /\ infectionDuration <= 0
        exposed == [i \in 1..size |->
                      IF i \in pending /\ ~raised
                      THEN infect(advanced[i], infectionDuration).person
                      ELSE advanced[i]]
        Count(c) == Cardinality({i \in 1..size : exposed[i].current = c})
    IN [population |-> exposed, raised |-> raised,
        day |-> IF raised THEN day ELSE day + 1,
        countInfected |-> IF raised THEN countInfected ELSE Count("sick"),
        countSusceptible |->
            IF raised THEN countSusceptible ELSE Count("susceptible"),
        countRecovered |->
            IF raised THEN countRecovered ELSE Count("recovered")]

Orders == {o \in [1..size -> 1..size] : \A a, b \in 1..size : o[a] = o[b] => a = b}

\* C7: a member infected with duration d on day k is sick at the end of
\* every day k .. k+d-1 and recovered at the end of day k+d and later.
CountdownCorrect ==
    infectedFor > 0 =>
        /\ day <= infectedOn + infectedFor - 1
              => isInfected(population[tracked])
        /\ day >= infectedOn + infectedFor
              => isRecovered(population[tracked])

\* C8: a member that goes from susceptible to sick during a simulateOneDay
\* call has remaining days equal to infectionDuration when the call returns.
FreshInfectionKeepsDuration ==
    [][last'.op = "simulateOneDay" =>
          \A i \in 1..size :
             (isSusceptible(population[i]) /\ isInfected(population'[i]))
                => getRemainingInfectionDays(population'[i])
                      = infectionDuration]_vars

\* the newly infected member is visited after the member that infected it
FreshInfectionKeepsDurationWitness ==
    /\ last.op = "simulateOneDay" /\ ~last.raised
    /\ size > 1
    /\ last.exposed = {size}
    /\ isInfected(population[size])

\* C9: for every draw of contacts and probabilities and every iteration
\* order of the members, the single loop of simulateOneDay leaves the same
\* member states, day and counts as the three-phase day advance.
OrderIndependent ==
    \A draws \in DayDraws(population) :
        \A order \in Orders :
            Observable(simulateOneDayIn(order, draws)) = threePhase(draws)

OrderIndependentWitness ==
    /\ last.op = "simulateOneDay" /\ ~last.raised
    /\ size >= 3
    /\ last.exposed # {}
    /\ \E i \in last.exposed : isInfected(population[i])
    /\ \E i \in 1..size : isRecovered(population[i])

\* C10: infectRandomPerson and simulateOneDay never raise an error.
NeverRaises == ~last.raised

\* C11: with infectionProbability = 0 no simulateOneDay call moves a member
\* from susceptible to sick, whatever the contacts and probability draws.
NoTransmissionAtZero ==
    (last.op = "simulateOneDay" /\ infectionProbability = 0)
        => \A i \in last.exposed : ~isInfected(population[i])

\* C12: with infectionProbability = 1, contactsPerDay >= 1 and
\* infectionDuration >= 1, every member susceptible at the start of the call
\* and drawn as a contact by a member sick at the start is sick afterwards.
CertainTransmission ==
    (/\ infectionProbability = ProbScale
     /\ contactsPerDay >= 1
     /\ infectionDuration >= 1)
        => \A draws \in DayDraws(population) :
              \A m \in DOMAIN draws :
                 \A j \in DOMAIN draws[m] :
                    isSusceptible(population[draws[m][j].contactIndex])
                       => isInfected(simulateOneDay(draws).population[
                                        draws[m][j].contactIndex])

CertainTransmissionWitness ==
    /\ last.op = "simulateOneDay" /\ ~last.raised
    /\ infectionProbability = ProbScale
    /\ contactsPerDay >= 1
    /\ \E i \in last.exposed :
          /\ isInfected(population[i])
          /\ getRemainingInfectionDays(population[i]) = infectionDuration

\* C13: every member sick at the start of simulateOneDay draws exactly
\* contactsPerDay contacts.
DrawsContactsPerDay ==
    \A draws \in DayDraws(population) :
        \A m \in DOMAIN draws : Len(draws[m]) = contactsPerDay

\* C14: with contactsPerDay = 0 the value of getInfectedCount() after a
\* simulateOneDay call is at most its value before the call.
InfectedCountNeverGrows ==
    [][(last'.op = "simulateOneDay" /\ contactsPerDay = 0)
          => countInfected' <= countInfected]_vars

\* C19: after every simulateOneDay call that returns, the three counts equal
\* the numbers of members susceptible, sick and recovered at that moment,
\* the members infected and the members recovered in that call included.
CountsFreshAfterDay ==
    (last.op = "simulateOneDay" /\ ~last.raised) => CountsMatchMembers

CountsFreshAfterDayWitness ==
    /\ last.op = "simulateOneDay" /\ ~last.raised
    /\ \E i \in last.exposed : isInfected(population[i])
    /\ countInfected = Cardinality(last.exposed)
    /\ countRecovered >= 1

\* C20: a simulateOneDay call that raises leaves the member states, the
\* remaining days, the day counter and the counts as they were.
RaisingDayChangesNothing ==
    [][(last'.op = "simulateOneDay" /\ last'.raised)
          => /\ population' = population
             /\ day' = day
             /\ countInfected' = countInfected
             /\ countSusceptible' = countSusceptible
             /\ countRecovered' = countRecovered]_vars

\* C15: with one seed and contactsPerDay = 0 the line of day 0 and of every
\* day before infectionDuration reads (N-1, 1, 0), and the line of day
\* infectionDuration reads (N-1, 0, 1).
SingleSeedTrajectory ==
    (/\ printed.written
     /\ config.initialInfections = 1
     /\ config.contactsPerDay = 0)
        => /\ printed.S = size - 1
           /\ printed.I = (IF printed.day < config.infectionDuration THEN 1 ELSE 0)
           /\ printed.R = (IF printed.day < config.infectionDuration THEN 0 ELSE 1)

\* C16: the constructor succeeds for every valid configuration and raises
\* std::invalid_argument for every invalid one.
InvalidConfigRaisesInvalidArgument ==
    pc # "config"
        => /\ isValid(config) => thrown = "none" /\ pc # "failed"
           /\ ~isValid(config) => thrown = "invalid_argument" /\ pc = "failed"

\* C17: runSimulation ends; when it has ended it has made between 1 and
\* simulationDays calls of simulateOneDay, it went on after a call only if
\* getInfectedCount() was not 0, and when it ended before the day limit no
\* member is sick.
DriverLoopBounded ==
    /\ (pc = "loop" /\ day >= 1) => countInfected # 0
    /\ pc = "loop" => day = runDay - 1
    /\ pc = "done"
          => /\ day >= 1
             /\ day <= config.simulationDays
             /\ day < config.simulationDays
                   => /\ countInfected = 0
                      /\ \A i \in 1..size : ~isInfected(population[i])

DriverLoopTerminates ==
    []DriverLoopBounded /\ <>(pc \in {"done", "failed"})

DriverLoopTerminatesWitness ==
    /\ pc = "done"
    /\ day >= 1
    /\ day < config.simulationDays
    /\ countInfected = 0
    /\ countRecovered >= 1

StepsAt(steps, name) == {a \in DOMAIN steps : steps[a].call = name}

\* C21 as stated: within one simulateOneDay call no updateState precedes a
\* simulateTransmission, every member gets exactly one updateState, and every
\* infectPerson follows every updateState.
ThreePhaseStepOrder ==
    \A draws \in DayDraws(population) :
        LET steps == simulateOneDaySteps(draws)
        IN /\ \A a \in StepsAt(steps, "updateState") :
                 \A b \in StepsAt(steps, "simulateTransmission") : b < a
           /\ \A m \in 1..size :
                 Cardinality({a \in StepsAt(steps, "updateState") :
                                 steps[a].member = m}) = 1
           /\ \A a \in StepsAt(steps, "updateState") :
                 \A b \in StepsAt(steps, "infectPerson") : a < b

\* C21, amended: within one simulateOneDay call the members are visited one
\* by one; a member sick at the start of the call has its transmissions
\* collected immediately before its own updateState, every member gets
\* exactly one updateState, and every infectPerson follows every updateState.
InterleavedStepOrder ==
    \A draws \in DayDraws(population) :
        LET steps == simulateOneDaySteps(draws)
        IN /\ \A m \in 1..size :
                 \E a \in DOMAIN steps :
                    /\ StepsAt(steps, "updateState") \cap
                          {b \in DOMAIN steps : steps[b].member = m} = {a}
                    /\ IF isInfected(population[m])
                       THEN /\ a > 1
                            /\ steps[a - 1] =
                                  [call |-> "simulateTransmission", member |-> m]
                       ELSE \A b \in StepsAt(steps, "simulateTransmission") :
                               steps[b].member # m
           /\ Cardinality(StepsAt(steps, "simulateTransmission"))
                 = NumberOf(isInfected)
           /\ \A a \in StepsAt(steps, "updateState") :
                 \A b \in StepsAt(steps, "infectPerson") : a < b

InterleavedStepOrderWitness ==
    \E draws \in DayDraws(population) :
        LET steps == simulateOneDaySteps(draws)
        IN /\ \E a \in StepsAt(steps, "updateState") :
                 \E b \in StepsAt(steps, "simulateTransmission") : a < b
           /\ StepsAt(steps, "infectPerson") # {}

\* C22: an infectRandomPerson call with infectionDuration >= 1 does not
\* raise, leaves the day counter and every member but the chosen one alone,
\* makes the chosen member sick for infectionDuration days when it was
\* susceptible and changes nothing otherwise; so the number of sick members
\* rises by at most one per call, and is at least one after a call on a
\* population where nobody has recovered yet.
SeedChangesAtMostOne ==
    [][(last'.op = "infectRandomPerson" /\ infectionDuration >= 1)
          => LET i == last'.index
                 sickAfter == {j \in 1..size : isInfected(population'[j])}
             IN /\ ~last'.raised
                /\ day' = day
                /\ \A j \in (1..size) \ {i} : population'[j] = population[j]
                /\ IF isSusceptible(population[i])
                   THEN population'[i] = [current |-> "sick",
                                          infectionDays |-> infectionDuration]
                   ELSE population'[i] = population[i]
                /\ Cardinality(sickAfter) <= NumberOf(isInfected) + 1
                /\ NumberOf(isRecovered) = 0 => Cardinality(sickAfter) >= 1]_vars

SeedChangesAtMostOneWitness ==
    /\ last.op = "infectRandomPerson"
    /\ infectionDuration >= 1
    /\ day = 0
    /\ isInfected(population[last.index])
    /\ getRemainingInfectionDays(population[last.index]) = infectionDuration
    /\ NumberOf(isInfected) = 2
    /\ NumberOf(isSusceptible) >= 1

\* C23: in an epidemic seeded with infectionDuration d >= 1 no member is sick
\* once N * d simulateOneDay calls have been made, whatever the draws; and a
\* simulateOneDay call made when no member is sick changes the day counter
\* only.
EpidemicDiesOut ==
    [][/\ day' >= size * infectionDuration
             => \A i \in 1..size : ~isInfected(population'[i])
       /\ (last'.op = "simulateOneDay" /\ day' # day
              /\ NumberOf(isInfected) = 0)
             => /\ day' = day + 1
                /\ population' = population
                /\ countInfected' = countInfected
                /\ countSusceptible' = countSusceptible
                /\ countRecovered' = countRecovered]_vars

EpidemicDiesOutWitness ==
    /\ last.op = "simulateOneDay"
    /\ size >= 2
    /\ infectionDuration >= 2
    /\ day = size * infectionDuration + 1
    /\ NumberOf(isRecovered) = size

\* C24: in the standalone Simulation.cpp the three counts add up to size
\* after construction and after every infectRandomPersons and currentState
\* call.
StandalonePartitionSum ==
    size = countSusceptible + countInfected + countRecovered

====
